---- MODULE Spec2Model ----
(***************************************************************************)
(* Model of the condominium fee-management backend (API/backend_api):      *)
(* the MOVIMIENTOS ledger, the USUARIOS directory, the ALERTAS_SEMAFORO    *)
(* status sheet, the movement-creating endpoints and the consolidation     *)
(* endpoint actualizar_semaforo.                                           *)
(*                                                                         *)
(* Amounts are integers counted in units of 0.002, so that one cent is     *)
(* Cent = 5 units: sub-cent balances exist, round(saldo, 2) is a real      *)
(* rounding, and no sum is ever half-way between two cents.  Dates are day *)
(* numbers of the year 2025 (1 = 2025-01-01).                              *)
(***************************************************************************)
EXTENDS Integers, Sequences, FiniteSets, TLC

VARIABLES USUARIOS, MOVIMIENTOS, ALERTAS_SEMAFORO, CONFIGURACION, hoy, resp, writeLog, enCurso

vars == <<USUARIOS, MOVIMIENTOS, ALERTAS_SEMAFORO, CONFIGURACION, hoy, resp, writeLog, enCurso>>

----------------------------------------------------------------------------
(* Bounds of the model *)

\* largest number of rows of the MOVIMIENTOS sheet
MaxMovs == 3

\* largest number of malformed cells hand-edited into the MOVIMIENTOS sheet
MaxEdits == 1

\* largest number of rows of a MOVIMIENTOS sheet the consolidation is handed
\* in SpecClasificar
MaxFilas == 2

----------------------------------------------------------------------------
(* Program constants *)

\* round(saldo, 2) / f"{saldo:.2f}": one cent, in amount units of 0.002
Cent == 5

\* if saldo > 0.01: the debt tolerance of the consolidation, in amount units
TOLERANCIA == Cent

\* if dias_atraso >= 30: threshold of ROJO
DIAS_ROJO == 30

\* config_map.get("VALOR_ALICUOTA", 50.00), in amount units
VALOR_ALICUOTA == 25000

\* config_map.get("DIA_VENCIMIENTO", 5)
DIA_VENCIMIENTO == 5

\* Cells of the MOVIMIENTOS sheet as get_all_records() returns them: a number,
\* a 'YYYY-MM-DD' text (n is its day number), any other text, or blank
NumCell(n) == [k |-> "num", n |-> n]
DateCell(d) == [k |-> "date", n |-> d]
TextCell == [k |-> "text", n |-> 0]
EmptyCell == [k |-> "empty", n |-> 0]

\* a FECHA_REGISTRO cell written by the endpoints: a 'YYYY-MM-DD HH:MM' text
\* (the moment itself is not looked at by any handler)
FechaHoraCell == [k |-> "datetime", n |-> 0]

\* date.today(): the days on which the system is observed (2025-01-05 is the
\* due date of period 2025-01, day 36 the due date of period 2025-02)
Days == {5, 35, 70}

\* date.today() of the consolidation runs of SpecClasificar
DiasClasificar == {5, 10, 25, 34, 35, 36, 40}

\* MES_PERIODO labels a request may carry; the last one is malformed
Periodos == {"2025-01", "2025-02", "2025-13"}

\* request amounts (PagoCreation.MONTO, MultaCreation.MONTO), in amount units
MontosPago == {25000}
MontosMulta == {4}

\* houses a payment or a fine may name (ID_CASA: int, gt=0)
CasasRequest == {1}

\* the USUARIOS sheets the system may run with
UserSheets ==
    { << [ID_CASA |-> 0, ESTADO |-> "ACTIVO"], [ID_CASA |-> 1, ESTADO |-> "ACTIVO"],
         [ID_CASA |-> 2, ESTADO |-> "activo"], [ID_CASA |-> 1, ESTADO |-> "ACTIVO"] >>,
      << [ID_CASA |-> 2, ESTADO |-> "INACTIVO"], [ID_CASA |-> 1, ESTADO |-> "ACTIVO"] >>,
      << [ID_CASA |-> 0, ESTADO |-> "ACTIVO"], [ID_CASA |-> 2, ESTADO |-> "INACTIVO"] >> }

----------------------------------------------------------------------------
(* Helpers *)

\* str.upper() on the cell values that occur
Upper(s) ==
    CASE s = "alicuota" -> "ALICUOTA"
      [] s = "activo"   -> "ACTIVO"
      [] OTHER          -> s

\* float(v): a number parses; text and blank raise ValueError
IsFloat(c) == c.k = "num"

\* datetime.strptime(v, '%Y-%m-%d') returns a date
IsDate(c) == c.k = "date"

\* datetime.strptime(v, '%Y-%m-%d') raises TypeError (v is not a string)
StrptimeTypeError(c) == c.k = "num"

\* round(x, 2): amount units to the nearest cent (x is never half-way)
Round2(x) == (2 * x + Cent) \div (2 * Cent)

\* sorted(casa_ids): insertion into an ascending list
RECURSIVE InsertSorted(_, _)
InsertSorted(x, s) ==
    IF s = <<>> THEN <<x>>
    ELSE IF x <= Head(s) THEN <<x>> \o s
    ELSE <<Head(s)>> \o InsertSorted(x, Tail(s))

RECURSIVE Sorted(_)
Sorted(s) == IF s = <<>> THEN <<>> ELSE InsertSorted(Head(s), Sorted(Tail(s)))

InSeq(x, s) == \E i \in 1..Len(s) : s[i] = x

----------------------------------------------------------------------------
(* sheets_service.py *)

\* SheetsService.get_all_casa_ids: the active ID_CASA of USUARIOS, without
\* repetitions, ascending; a store failure is swallowed and gives []
RECURSIVE CollectCasaIds(_, _)
CollectCasaIds(records, casa_ids) ==
    IF records = <<>> THEN casa_ids
    ELSE LET record == Head(records)
             estado == Upper(record.ESTADO)
         IN  IF estado = "ACTIVO" /\ ~InSeq(record.ID_CASA, casa_ids)
             THEN CollectCasaIds(Tail(records), Append(casa_ids, record.ID_CASA))
             ELSE CollectCasaIds(Tail(records), casa_ids)

get_all_casa_ids(records, storeFails) ==
    IF storeFails THEN <<>> ELSE Sorted(CollectCasaIds(records, <<>>))

\* variant: the search never finds the row
RowIndexToUpdate_Nunca(sheet, id_casa) == 0

\* the row search of update_or_append_semaforo: index of the first row whose
\* column A is the house, 0 when there is none (row_index_to_update = -1)
RowIndexToUpdate(sheet, id_casa) ==
    IF \E i \in 1..Len(sheet) : sheet[i].ID_CASA = id_casa
    THEN CHOOSE i \in 1..Len(sheet) :
            /\ sheet[i].ID_CASA = id_casa
            /\ \A j \in 1..(i - 1) : sheet[j].ID_CASA # id_casa
    ELSE 0

\* new_data of update_or_append_semaforo: the six columns A:F
NewData(id_casa, dias_atraso, saldo, estado, cuotas_pendientes, current_time) ==
    [ID_CASA |-> id_casa, SALDO_PENDIENTE |-> saldo,
     DIAS_ATRASO |-> dias_atraso, ESTADO_SEMAFORO |-> estado,
     CUOTAS_PENDIENTES |-> cuotas_pendientes,
     FECHA_ACTUALIZACION |-> current_time]

\* variant: the row is searched again at the time of the write
UpdateOrAppendRow_Buscando(sheet, row_index_to_update, new_data) ==
    IF \E i \in 1..Len(sheet) : sheet[i].ID_CASA = new_data.ID_CASA
    THEN [sheet EXCEPT ![CHOOSE i \in 1..Len(sheet) : sheet[i].ID_CASA = new_data.ID_CASA] = new_data]
    ELSE Append(sheet, new_data)

\* the write of update_or_append_semaforo: sheet.update of the row found, or
\* sheet.append_row when none was (row_index_to_update = -1, here 0); the row
\* written is the one at the index the search gave, whatever it holds by now
UpdateOrAppendRow(sheet, row_index_to_update, new_data) ==
    IF row_index_to_update # 0 /\ row_index_to_update <= Len(sheet)
    THEN [sheet EXCEPT ![row_index_to_update] = new_data]
    ELSE Append(sheet, new_data)

\* variant: the sheet is cleared before the row is written
update_or_append_semaforo_Limpia(sheet, id_casa, dias_atraso, saldo, estado, cuotas_pendientes, current_time) ==
    <<NewData(id_casa, dias_atraso, saldo, estado, cuotas_pendientes, current_time)>>

\* SheetsService.update_or_append_semaforo: the sheet after the call; saldo
\* arrives rounded to cents and is written as f"{saldo:.2f}"
update_or_append_semaforo(sheet, id_casa, dias_atraso, saldo, estado, cuotas_pendientes, current_time) ==
    LET new_data == NewData(id_casa, dias_atraso, saldo, estado, cuotas_pendientes, current_time)
        row_index_to_update == RowIndexToUpdate(sheet, id_casa)
    IN  UpdateOrAppendRow(sheet, row_index_to_update, new_data)

\* ID_MOVIMIENTO values are sequences of characters
Digits == <<"0", "1", "2", "3", "4", "5", "6", "7", "8", "9">>

DigitVal(c) == (CHOOSE i \in 1..10 : Digits[i] = c) - 1

\* characters for which str.isdigit() holds and int() raises ValueError: the
\* superscript digits; "^2" stands for the one character U+00B2
SuperDigits == <<"^2">>

\* str.isdigit(): non-empty and made of digit characters only
IsDigit(s) ==
    s # <<>> /\ \A i \in 1..Len(s) : InSeq(s[i], Digits) \/ InSeq(s[i], SuperDigits)

\* int(s) raises ValueError on a string that passed isdigit()
IntRaises(s) == \E i \in 1..Len(s) : InSeq(s[i], SuperDigits)

\* int(s) of a digit string
RECURSIVE IntOf(_)
IntOf(s) == IF s = <<>> THEN 0 ELSE 10 * IntOf(SubSeq(s, 1, Len(s) - 1)) + DigitVal(s[Len(s)])

\* str(n) of a natural number
RECURSIVE StrOf(_)
StrOf(n) == IF n < 10 THEN <<Digits[n + 1]>> ELSE StrOf(n \div 10) \o <<Digits[(n % 10) + 1]>>

\* f"{n:04d}": zero-padded to at least four digits
RECURSIVE Pad04(_)
Pad04(s) == IF Len(s) >= 4 THEN s ELSE Pad04(<<"0">> \o s)

RECURSIVE MaxOf(_)
MaxOf(s) == IF Len(s) = 1 THEN s[1]
            ELSE LET m == MaxOf(Tail(s)) IN IF s[1] >= m THEN s[1] ELSE m

\* valid_ids: uid and uid.startswith('M') and uid[1:].isdigit()
IsValidId(uid) == uid # <<>> /\ Head(uid) = "M" /\ IsDigit(Tail(uid))

\* SheetsService.generate_next_movement_id raises: int(uid[1:]) of a valid id
GenerateIdRaises(all_ids) ==
    \E i \in 1..Len(all_ids) : IsValidId(all_ids[i]) /\ IntRaises(Tail(all_ids[i]))

\* variant: the id numbered by the count of rows
generate_next_movement_id_PorCuenta(all_ids) == <<"M">> \o Pad04(StrOf(Len(all_ids) + 1))

\* SheetsService.generate_next_movement_id over column 1 of MOVIMIENTOS, when
\* it does not raise
generate_next_movement_id(all_ids) ==
    IF all_ids = <<>> THEN <<"M", "0", "0", "0", "1">>
    ELSE LET IsValid(uid) == IsValidId(uid)
             valid_ids == SelectSeq(all_ids, IsValid)
             numbers == [i \in 1..Len(valid_ids) |-> IntOf(Tail(valid_ids[i]))]
             last_number == IF valid_ids # <<>> THEN MaxOf(numbers) ELSE 0
             next_number == last_number + 1
         IN  <<"M">> \o Pad04(StrOf(next_number))

\* column 1 of the MOVIMIENTOS sheet (col_values(1)[1:])
IdColumn(sheet) == [i \in 1..Len(sheet) |-> sheet[i].ID_MOVIMIENTO]

\* variant: the row is inserted at the top of the sheet
append_movement_AlInicio(sheet, data) == <<data>> \o sheet

\* SheetsService.append_movement: one row more at the end of the sheet
append_movement(sheet, data) == Append(sheet, data)

\* VALOR cells of the CONFIGURACION sheet, as text: one with a '.' or ',' that
\* float() parses, one made of digits, any other text (n: the amount in units)
FloatText(n) == [k |-> "float", n |-> n]
DigitsText(n) == [k |-> "digits", n |-> n]

\* the CONFIGURACION sheets the system may run with (rows CLAVE, VALOR): no
\* VALOR_ALICUOTA row, '50.00', '40.50', '-50.00' and '0'
ConfigDeFabrica == << [CLAVE |-> "VALOR_ALICUOTA", VALOR |-> FloatText(25000)] >>

ConfigSheets ==
    { <<>>, ConfigDeFabrica,
      << [CLAVE |-> "VALOR_ALICUOTA", VALOR |-> FloatText(20250)] >>,
      << [CLAVE |-> "VALOR_ALICUOTA", VALOR |-> FloatText(-25000)] >>,
      << [CLAVE |-> "VALOR_ALICUOTA", VALOR |-> DigitsText(0)] >> }

\* the conversion of a VALOR in get_config_map: float(value) or int(value),
\* and the text itself when it is neither
ConfigValue(v) == IF v.k \in {"float", "digits"} THEN NumCell(v.n) ELSE TextCell

\* SheetsService.get_config_map: the map read from the sheet; a store failure
\* is swallowed and gives the fallback values
get_config_map(sheet, storeFails) ==
    IF storeFails
    THEN << [CLAVE |-> "VALOR_ALICUOTA", VALOR |-> NumCell(VALOR_ALICUOTA)] >>
    ELSE [i \in 1..Len(sheet) |-> [CLAVE |-> sheet[i].CLAVE, VALOR |-> ConfigValue(sheet[i].VALOR)]]

\* config_map.get(clave, default)
ConfigGet(config_map, clave, default) ==
    IF \E i \in 1..Len(config_map) : config_map[i].CLAVE = clave
    THEN config_map[CHOOSE i \in 1..Len(config_map) :
                        /\ config_map[i].CLAVE = clave
                        /\ \A j \in (i + 1)..Len(config_map) : config_map[j].CLAVE # clave].VALOR
    ELSE default

\* dict.get(key, default) on a dict modelled as a record
DictGet(d, key, default) == IF key \in DOMAIN d THEN d[key] ELSE default

\* SheetsService.get_user_by_id_casa: the first USUARIOS record whose ID_CASA
\* is truthy and equal to id_casa, as a list of one record; <<>> is None, which
\* is also what a store failure gives (the exception is swallowed)
get_user_by_id_casa(records, id_casa, storeFails) ==
    IF storeFails THEN <<>>
    ELSE IF \E i \in 1..Len(records) : records[i].ID_CASA # 0 /\ records[i].ID_CASA = id_casa
    THEN << records[CHOOSE i \in 1..Len(records) :
                       /\ records[i].ID_CASA # 0 /\ records[i].ID_CASA = id_casa
                       /\ \A j \in 1..(i - 1) : records[j].ID_CASA # id_casa] >>
    ELSE <<>>

\* float(row[1]) of a SALDO cell written as f"{saldo:.2f}": cents to amount units
FloatDeCentavos(c) == c * Cent

\* int(row[i]) if row[i].isdigit() else 0
IntSiDigitos(n) == IF n >= 0 THEN n ELSE 0

\* SheetsService.get_semaforo_by_casa: the dict built from the first row of
\* ALERTAS_SEMAFORO whose column A is the house, as a list of one dict; <<>> is
\* None, which is also what a store failure gives (the exception is swallowed)
get_semaforo_by_casa(sheet, id_casa, storeFails) ==
    IF storeFails \/ RowIndexToUpdate(sheet, id_casa) = 0 THEN <<>>
    ELSE LET row == sheet[RowIndexToUpdate(sheet, id_casa)]
         IN  << [ID_CASA |-> row.ID_CASA,
                 SALDO |-> FloatDeCentavos(row.SALDO_PENDIENTE),
                 DIAS_ATRASO |-> IntSiDigitos(row.DIAS_ATRASO),
                 ESTADO_SEMAFORO |-> row.ESTADO_SEMAFORO,
                 CUOTAS_PENDIENTES |-> IntSiDigitos(row.CUOTAS_PENDIENTES),
                 FECHA_ACTUALIZACION |-> row.FECHA_ACTUALIZACION] >>

\* SheetsService.get_records_by_casa_id('MOVIMIENTOS', id_casa): the rows of the
\* house in sheet order; MONTO is a float where the cell parses and the cell's
\* text where it does not
RECURSIVE get_records_by_casa_id(_, _)
get_records_by_casa_id(sheet, id_casa) ==
    IF sheet = <<>> THEN <<>>
    ELSE IF Head(sheet).ID_CASA = id_casa
    THEN <<Head(sheet)>> \o get_records_by_casa_id(Tail(sheet), id_casa)
    ELSE get_records_by_casa_id(Tail(sheet), id_casa)

----------------------------------------------------------------------------
(* main.py: the calendar *)

\* days of 2025 before the first day of month m (January, February, March)
DaysBefore == <<0, 31, 59>>

\* datetime.strptime(MES_PERIODO, '%Y-%m'): the month, 0 when it raises
MonthOfPeriodo(p) ==
    CASE p = "2025-01" -> 1
      [] p = "2025-02" -> 2
      [] p = "2025-03" -> 3
      [] OTHER -> 0

\* date(year, month, dia).strftime('%Y-%m-%d'), as a day number
FechaVencimiento(month, dia) == DaysBefore[month] + dia

\* get_local_datetime().strftime('%Y-%m')
MesPeriodoDe(dia) ==
    IF dia <= 31 THEN "2025-01" ELSE IF dia <= 59 THEN "2025-02" ELSE "2025-03"

----------------------------------------------------------------------------
(* main.py: actualizar_semaforo, the work done for one house *)

\* variant: every row of the sheet, whatever its house
MovimientosCasa_Todos(movimientos_data, casa_id) == movimientos_data

\* movimientos_casa: the rows whose ID_CASA is the house
MovimientosCasa(movimientos_data, casa_id) ==
    SelectSeq(movimientos_data, LAMBDA m : m.ID_CASA = casa_id)

\* b. saldo: the running sum of the amounts that parse; the others are skipped
RECURSIVE SaldoTotal(_, _)
SaldoTotal(movimientos_casa, saldo) ==
    IF movimientos_casa = <<>> THEN saldo
    ELSE LET m == Head(movimientos_casa)
         IN  IF IsFloat(m.MONTO)
             THEN SaldoTotal(Tail(movimientos_casa), saldo + m.MONTO.n)
             ELSE SaldoTotal(Tail(movimientos_casa), saldo)

\* variant: the gate written as saldo >= 0
TieneDeuda_DesdeCero(saldo) == saldo >= 0

\* if saldo > 0.01: the house has a debt to classify
TieneDeuda(saldo) == saldo > TOLERANCIA

\* if tipo == 'ALICUOTA' and monto > 0 and fecha_venc_str: the row is a charge
\* whose due date is looked at
EsCargo(m) ==
    /\ IsFloat(m.MONTO)
    /\ Upper(m.TIPO_MOVIMIENTO) = "ALICUOTA"
    /\ m.MONTO.n > 0
    /\ m.FECHA_VENCIMIENTO.k # "empty"

\* variant: a charge due today is not yet overdue
EstaVencido_Estricto(fecha_vencimiento, dia) == fecha_vencimiento < dia

\* if fecha_vencimiento <= hoy: the charge is overdue
EstaVencido(fecha_vencimiento, dia) == fecha_vencimiento <= dia

\* cargos_vencidos: (fecha_vencimiento, ID_MOVIMIENTO) of the overdue charges,
\* in ledger order; a due date that does not parse is skipped
RECURSIVE CargosVencidos(_, _)
CargosVencidos(movimientos_casa, dia) ==
    IF movimientos_casa = <<>> THEN <<>>
    ELSE LET m == Head(movimientos_casa)
             rest == CargosVencidos(Tail(movimientos_casa), dia)
         IN  IF EsCargo(m) /\ IsDate(m.FECHA_VENCIMIENTO)
                /\ EstaVencido(m.FECHA_VENCIMIENTO.n, dia)
             THEN <<[fecha |-> m.FECHA_VENCIMIENTO.n, id |-> m.ID_MOVIMIENTO]>> \o rest
             ELSE rest

\* cargos_vencidos.sort(key=lambda x: x[0]): stable, ascending by due date
RECURSIVE InsertCargo(_, _)
InsertCargo(c, s) ==
    IF s = <<>> THEN <<c>>
    ELSE IF c.fecha < Head(s).fecha THEN <<c>> \o s
    ELSE <<Head(s)>> \o InsertCargo(c, Tail(s))

RECURSIVE SortCargos(_, _)
SortCargos(s, acc) ==
    IF s = <<>> THEN acc ELSE SortCargos(Tail(s), InsertCargo(Head(s), acc))

\* variant: the first overdue charge of the ledger, without the sort
FechaMora_SinOrdenar(cargos_vencidos) == cargos_vencidos[1].fecha

\* fecha_mora = cargos_vencidos[0][0] after the sort
FechaMora(cargos_vencidos) == SortCargos(cargos_vencidos, <<>>)[1].fecha

\* variant: three levels, VERDE below fifteen days
EstadoPorDias_TresNiveles(dias_atraso) ==
    IF dias_atraso >= DIAS_ROJO THEN "ROJO"
    ELSE IF dias_atraso >= 15 THEN "AMARILLO" ELSE "VERDE"

\* variant: ROJO only after the thirtieth day
EstadoPorDias_Despues(dias_atraso) == IF dias_atraso > DIAS_ROJO THEN "ROJO" ELSE "AMARILLO"

\* if dias_atraso >= 30: ROJO else AMARILLO
EstadoPorDias(dias_atraso) == IF dias_atraso >= DIAS_ROJO THEN "ROJO" ELSE "AMARILLO"

\* variant: a debt with nothing overdue left VERDE
EstadoSinVencidos_Verde == "VERDE"

\* else: estado_semaforo = "AMARILLO" (saldo > 0.01 and no overdue charge)
EstadoSinVencidos == "AMARILLO"

\* a charge whose due date cell is a number makes strptime raise TypeError,
\* which the loop does not catch
LanzaTypeError(movimientos_casa) ==
    \E i \in 1..Len(movimientos_casa) :
        EsCargo(movimientos_casa[i]) /\ StrptimeTypeError(movimientos_casa[i].FECHA_VENCIMIENTO)

\* steps b and c for one house: saldo (amount units), estado, dias, cuotas,
\* and whether an exception left the loop
ClasificarCasa(movimientos_casa, dia) ==
    LET saldo == SaldoTotal(movimientos_casa, 0)
        cargos_vencidos == CargosVencidos(movimientos_casa, dia)
    IN  IF ~TieneDeuda(saldo)
        THEN [saldo |-> saldo, estado |-> "VERDE", dias |-> 0, cuotas |-> 0, error |-> FALSE]
        ELSE IF LanzaTypeError(movimientos_casa)
        THEN [saldo |-> saldo, estado |-> "VERDE", dias |-> 0, cuotas |-> 0, error |-> TRUE]
        ELSE IF cargos_vencidos # <<>>
        THEN LET dias_atraso == dia - FechaMora(cargos_vencidos)
             IN  [saldo |-> saldo, estado |-> EstadoPorDias(dias_atraso),
                  dias |-> dias_atraso, cuotas |-> Len(cargos_vencidos), error |-> FALSE]
        ELSE [saldo |-> saldo, estado |-> EstadoSinVencidos, dias |-> 0, cuotas |-> 0, error |-> FALSE]

\* the entry of results for one house (SemaforoResult), SALDO in cents
SemaforoResult(casa_id, c) ==
    [ID_CASA |-> casa_id, SALDO |-> Round2(c.saldo), ESTADO_SEMAFORO |-> c.estado,
     DIAS_ATRASO |-> c.dias, CUOTAS_PENDIENTES |-> c.cuotas]

\* Store failures a consolidation run may meet: none, the read of USUARIOS,
\* the read of MOVIMIENTOS, the read of ALERTAS_SEMAFORO for the k-th house
\* (raises), the write of the row of the k-th house (swallowed, returns False)
Fallas(n) ==
    {<<"none", 0>>, <<"USUARIOS", 0>>, <<"MOVIMIENTOS", 0>>}
        \cup {<<"leer", k>> : k \in 1..n} \cup {<<"escribir", k>> : k \in 1..n}

\* variant: a house with an amount that does not parse is skipped
RECURSIVE ConsolidarDesde_OmiteMalformadas(_, _, _, _, _, _)
ConsolidarDesde_OmiteMalformadas(k, casa_ids, movimientos_data, dia, falla, st) ==
    IF k > Len(casa_ids) THEN st
    ELSE LET casa_id == casa_ids[k]
             movimientos_casa == MovimientosCasa(movimientos_data, casa_id)
             c == ClasificarCasa(movimientos_casa, dia)
             malformed == \E i \in 1..Len(movimientos_casa) : ~IsFloat(movimientos_casa[i].MONTO)
         IN  IF c.error \/ falla = <<"leer", k>>
             THEN [st EXCEPT !.abort = TRUE]
             ELSE IF malformed
             THEN ConsolidarDesde_OmiteMalformadas(k + 1, casa_ids, movimientos_data, dia, falla, st)
             ELSE LET written == falla # <<"escribir", k>>
                      sheet == IF written
                               THEN update_or_append_semaforo(st.sheet, casa_id, c.dias,
                                        Round2(c.saldo), c.estado, c.cuotas, dia)
                               ELSE st.sheet
                  IN  ConsolidarDesde_OmiteMalformadas(k + 1, casa_ids, movimientos_data, dia, falla,
                          [sheet |-> sheet,
                           results |-> Append(st.results, SemaforoResult(casa_id, c)),
                           log |-> Append(st.log, [ID_CASA |-> casa_id, ok |-> written]),
                           abort |-> FALSE])

\* for casa_id in casa_ids: the loop from position k on; st carries the status
\* sheet, the results, the log of status writes and whether the run aborted
RECURSIVE ConsolidarDesde(_, _, _, _, _, _)
ConsolidarDesde(k, casa_ids, movimientos_data, dia, falla, st) ==
    IF k > Len(casa_ids) THEN st
    ELSE LET casa_id == casa_ids[k]
             c == ClasificarCasa(MovimientosCasa(movimientos_data, casa_id), dia)
         IN  IF c.error \/ falla = <<"leer", k>>
             THEN [st EXCEPT !.abort = TRUE]
             ELSE LET written == falla # <<"escribir", k>>
                      sheet == IF written
                               THEN update_or_append_semaforo(st.sheet, casa_id, c.dias,
                                        Round2(c.saldo), c.estado, c.cuotas, dia)
                               ELSE st.sheet
                  IN  ConsolidarDesde(k + 1, casa_ids, movimientos_data, dia, falla,
                          [sheet |-> sheet,
                           results |-> Append(st.results, SemaforoResult(casa_id, c)),
                           log |-> Append(st.log, [ID_CASA |-> casa_id, ok |-> written]),
                           abort |-> FALSE])

\* variant: the treasury is not filtered out
SinTesoreria_Todas(ids) == ids

\* casa_ids = [id for id in get_all_casa_ids() if id != 0]
SinTesoreria(ids) == SelectSeq(ids, LAMBDA id : id # 0)

----------------------------------------------------------------------------
(* State machine *)

\* the answer of the last request: the endpoint, the HTTP status code, the
\* status field of the body and, for a consolidation, its results
Respuesta(op, code, status, results) ==
    [op |-> op, code |-> code, status |-> status, results |-> results]

SinRespuesta == Respuesta("none", 0, "none", <<>>)

\* a row of MOVIMIENTOS (ID, ID_CASA, MES_PERIODO, TIPO_MOV, MONTO,
\* FECHA_VENCIMIENTO, FECHA_REGISTRO); fecha_registro is the handler's
\* get_local_datetime().strftime('%Y-%m-%d %H:%M')
NewRow(next_id, casa_id, mes_periodo, tipo, monto, fecha_vencimiento) ==
    [ID_MOVIMIENTO |-> next_id, ID_CASA |-> casa_id, MES_PERIODO |-> mes_periodo,
     TIPO_MOVIMIENTO |-> tipo, MONTO |-> monto, FECHA_VENCIMIENTO |-> fecha_vencimiento,
     FECHA_REGISTRO |-> FechaHoraCell]

Abs(x) == IF x < 0 THEN -x ELSE x

\* the callers whose requests may be in progress at the same time
Llamadores == {1, 2}

\* a caller with no request in progress
Libre == [op |-> "none"]

\* enCurso[p] holds the position and the local variables of the request of
\* caller p while it is between two calls of the store
SinLlamadas == [p \in Llamadores |-> Libre]

Init ==
    /\ USUARIOS \in UserSheets
    /\ CONFIGURACION = ConfigDeFabrica
    /\ MOVIMIENTOS = <<>>
    /\ ALERTAS_SEMAFORO = <<>>
    /\ hoy \in Days
    /\ resp = SinRespuesta
    /\ writeLog = <<>>
    /\ enCurso = SinLlamadas

\* the body of register_pago for one pago_data
register_pago_con(casa, monto, storeFails) ==
    /\ Len(MOVIMIENTOS) < MaxMovs
    /\ IF storeFails \/ GenerateIdRaises(IdColumn(MOVIMIENTOS))
       THEN /\ resp' = Respuesta("register_pago", 500, "error", <<>>)
            /\ UNCHANGED MOVIMIENTOS
       ELSE LET next_id == generate_next_movement_id(IdColumn(MOVIMIENTOS))
                monto_negativo == -Abs(monto)
                new_row == NewRow(next_id, casa, MesPeriodoDe(hoy), "PAGO",
                                  NumCell(monto_negativo), EmptyCell)
            IN  /\ MOVIMIENTOS' = append_movement(MOVIMIENTOS, new_row)
                /\ resp' = Respuesta("register_pago", 200, "success", <<>>)
    /\ writeLog' = <<>>
    /\ UNCHANGED <<USUARIOS, ALERTAS_SEMAFORO, CONFIGURACION, hoy, enCurso>>

\* POST /admin/pagos: the request has passed schemas.PagoCreation
register_pago ==
    \E casa \in CasasRequest, monto \in MontosPago, storeFails \in BOOLEAN :
        register_pago_con(casa, monto, storeFails)

\* the body of register_multa for one multa_data
register_multa_con(casa, monto, storeFails) ==
    /\ Len(MOVIMIENTOS) < MaxMovs
    /\ IF storeFails \/ GenerateIdRaises(IdColumn(MOVIMIENTOS))
       THEN /\ resp' = Respuesta("register_multa", 500, "error", <<>>)
            /\ UNCHANGED MOVIMIENTOS
       ELSE LET next_id == generate_next_movement_id(IdColumn(MOVIMIENTOS))
                monto_positivo == Abs(monto)
                new_row == NewRow(next_id, casa, MesPeriodoDe(hoy), "MULTA",
                                  NumCell(monto_positivo), EmptyCell)
            IN  /\ MOVIMIENTOS' = append_movement(MOVIMIENTOS, new_row)
                /\ resp' = Respuesta("register_multa", 200, "success", <<>>)
    /\ writeLog' = <<>>
    /\ UNCHANGED <<USUARIOS, ALERTAS_SEMAFORO, CONFIGURACION, hoy, enCurso>>

\* POST /admin/multas: the request has passed schemas.MultaCreation
register_multa ==
    \E casa \in CasasRequest, monto \in MontosMulta, storeFails \in BOOLEAN :
        register_multa_con(casa, monto, storeFails)

\* for casa_id in casa_ids of register_alicuotas_masivas: one id and one row
\* per house; the store call for the house at position falla raises
RECURSIVE AlicuotasDesde(_, _, _, _, _, _, _)
AlicuotasDesde(k, casa_ids, periodo, monto_alicuota, fecha_vencimiento, falla, sheet) ==
    IF k > Len(casa_ids) \/ k = falla THEN sheet
    ELSE LET next_id == generate_next_movement_id(IdColumn(sheet))
             new_row == NewRow(next_id, casa_ids[k], periodo, "ALICUOTA",
                               monto_alicuota, DateCell(fecha_vencimiento))
         IN  AlicuotasDesde(k + 1, casa_ids, periodo, monto_alicuota, fecha_vencimiento, falla,
                            append_movement(sheet, new_row))

\* the body of register_alicuotas_masivas for one alicuota_data: the
\* HTTPException(400) raised for a MES_PERIODO that strptime rejects is caught
\* by the handler's own except Exception and answered as 500
register_alicuotas_con(periodo, usuariosFails, configFails) ==
    LET config_map == get_config_map(CONFIGURACION, configFails)
        monto_alicuota == ConfigGet(config_map, "VALOR_ALICUOTA", NumCell(VALOR_ALICUOTA))
        month == MonthOfPeriodo(periodo)
        casa_ids == get_all_casa_ids(USUARIOS, usuariosFails)
    IN  /\ Len(MOVIMIENTOS) + Len(casa_ids) <= MaxMovs
        /\ IF month = 0
           THEN /\ resp' = Respuesta("register_alicuotas_masivas", 500, "error", <<>>)
                /\ UNCHANGED MOVIMIENTOS
           ELSE IF casa_ids = <<>>
           THEN /\ resp' = Respuesta("register_alicuotas_masivas", 200, "warning", <<>>)
                /\ UNCHANGED MOVIMIENTOS
           ELSE IF GenerateIdRaises(IdColumn(MOVIMIENTOS))
           THEN /\ resp' = Respuesta("register_alicuotas_masivas", 500, "error", <<>>)
                /\ UNCHANGED MOVIMIENTOS
           ELSE \E falla \in 0..Len(casa_ids) :
                /\ MOVIMIENTOS' = AlicuotasDesde(1, casa_ids, periodo, monto_alicuota,
                                      FechaVencimiento(month, DIA_VENCIMIENTO), falla, MOVIMIENTOS)
                /\ resp' = IF falla = 0
                           THEN Respuesta("register_alicuotas_masivas", 200, "success", <<>>)
                           ELSE Respuesta("register_alicuotas_masivas", 500, "error", <<>>)
        /\ writeLog' = <<>>
        /\ UNCHANGED <<USUARIOS, ALERTAS_SEMAFORO, CONFIGURACION, hoy, enCurso>>

\* POST /admin/alicuotas: AlicuotaCreation.validate_mes_periodo rejects a
\* malformed MES_PERIODO (422) before the handler runs
register_alicuotas_masivas ==
    \E periodo \in Periodos, usuariosFails \in BOOLEAN, configFails \in BOOLEAN :
        IF MonthOfPeriodo(periodo) = 0
        THEN /\ Len(MOVIMIENTOS) + Len(get_all_casa_ids(USUARIOS, usuariosFails)) <= MaxMovs
             /\ resp' = Respuesta("register_alicuotas_masivas", 422, "error", <<>>)
             /\ writeLog' = <<>>
             /\ UNCHANGED <<USUARIOS, MOVIMIENTOS, ALERTAS_SEMAFORO, CONFIGURACION, hoy, enCurso>>
        ELSE register_alicuotas_con(periodo, usuariosFails, configFails)

\* the fields of schemas.TesoreriaCreation
CamposTesoreria == {"TIPO_MOVIMIENTO_FINANCIERO", "TIPO_MOVIMIENTO", "MONTO", "CONCEPTO", "TIPO_PAGO"}

\* the field register_tesoreria_transaccion reads the flow from:
\* data.TIPO_TRANSACCION raises AttributeError when the schema has no such field
CampoLeido == "TIPO_TRANSACCION"

\* TIPO_MOVIMIENTO_FINANCIERO: Literal["INGRESO", "EGRESO"]; MONTO gt 0
FlujosTesoreria == {"INGRESO", "EGRESO"}
MontosTesoreria == {6}

\* register_tesoreria_transaccion for one request
register_tesoreria_con(flujo, monto, storeFails) ==
    /\ Len(MOVIMIENTOS) < MaxMovs
    /\ IF storeFails \/ GenerateIdRaises(IdColumn(MOVIMIENTOS)) \/ CampoLeido \notin CamposTesoreria
       THEN /\ resp' = Respuesta("register_tesoreria_transaccion", 500, "error", <<>>)
            /\ UNCHANGED MOVIMIENTOS
       ELSE LET next_id == generate_next_movement_id(IdColumn(MOVIMIENTOS))
                monto_final == IF Upper(flujo) = "EGRESO" THEN -Abs(monto) ELSE Abs(monto)
                new_row == NewRow(next_id, 0, MesPeriodoDe(hoy), Upper(flujo),
                                  NumCell(monto_final), EmptyCell)
            IN  /\ MOVIMIENTOS' = append_movement(MOVIMIENTOS, new_row)
                /\ resp' = Respuesta("register_tesoreria_transaccion", 200, "success", <<>>)
    /\ writeLog' = <<>>
    /\ UNCHANGED <<USUARIOS, ALERTAS_SEMAFORO, CONFIGURACION, hoy, enCurso>>

\* POST /admin/tesoreria/transaccion
register_tesoreria_transaccion ==
    \E flujo \in FlujosTesoreria, monto \in MontosTesoreria, storeFails \in BOOLEAN :
        register_tesoreria_con(flujo, monto, storeFails)

\* actualizar_semaforo when the store fails as falla says
actualizar_semaforo_con(falla) ==
    LET casa_ids == SinTesoreria(get_all_casa_ids(USUARIOS, falla = <<"USUARIOS", 0>>))
        movimientos_data == MOVIMIENTOS
        st0 == [sheet |-> ALERTAS_SEMAFORO, results |-> <<>>, log |-> <<>>, abort |-> FALSE]
        st == ConsolidarDesde(1, casa_ids, movimientos_data, hoy, falla, st0)
    IN  /\ falla[2] <= Len(casa_ids)
        /\ IF falla = <<"MOVIMIENTOS", 0>>
           THEN /\ resp' = Respuesta("actualizar_semaforo", 500, "error", <<>>)
                /\ writeLog' = <<>>
                /\ UNCHANGED ALERTAS_SEMAFORO
           ELSE IF casa_ids = <<>>
           THEN /\ resp' = Respuesta("actualizar_semaforo", 200, "warning", <<>>)
                /\ writeLog' = <<>>
                /\ UNCHANGED ALERTAS_SEMAFORO
           ELSE /\ ALERTAS_SEMAFORO' = st.sheet
                /\ writeLog' = st.log
                /\ resp' = IF st.abort
                           THEN Respuesta("actualizar_semaforo", 500, "error", <<>>)
                           ELSE Respuesta("actualizar_semaforo", 200, "success", st.results)
        /\ UNCHANGED <<USUARIOS, MOVIMIENTOS, CONFIGURACION, hoy, enCurso>>

\* POST /admin/actualizar_semaforo
actualizar_semaforo == \E falla \in Fallas(Len(USUARIOS)) : actualizar_semaforo_con(falla)

\* houses a statement may be asked for: the treasury, the houses of the
\* directory, and a house no directory holds
CasasConsulta == {0, 1, 2, 3}

\* the sheets whose read may fail during one statement request
HojasConsulta == {"USUARIOS", "ALERTAS_SEMAFORO", "MOVIMIENTOS"}

\* float(m.get('MONTO', 0.0) or 0.0) in get_estado_cuenta: a blank cell counts
\* as 0.0 and a text raises ValueError
MontoValRaises(c) == c.k \notin {"num", "empty"}

MontoVal(c) == IF c.k = "num" THEN c.n ELSE 0

\* the parse of FECHA_REGISTRO in the statements: a blank cell is skipped, a
\* 'YYYY-MM-DD HH:MM' text parses, and for any other text both strptime calls
\* raise ValueError
FechaRegistroRaises(c) == c.k = "text"

RECURSIVE SaldoCalculado(_)
SaldoCalculado(movimientos_data) ==
    IF movimientos_data = <<>> THEN 0
    ELSE MontoVal(Head(movimientos_data).MONTO) + SaldoCalculado(Tail(movimientos_data))

\* the status get_estado_cuenta makes up when get_semaforo_by_casa returns nothing
SemaforoPorDefecto(id_casa, current_time) ==
    [ID_CASA |-> id_casa, DIAS_ATRASO |-> 0, SALDO_PENDIENTE |-> 0,
     ESTADO_SEMAFORO |-> "VERDE", CUOTAS_PENDIENTES |-> 0,
     FECHA_ACTUALIZACION |-> current_time]

\* get_estado_cuenta for house id_casa when the reads of the sheets in fallas fail
get_estado_cuenta_con(id_casa, fallas) ==
    LET user_info == get_user_by_id_casa(USUARIOS, id_casa, "USUARIOS" \in fallas)
        semaforo_leido == IF id_casa # 0
                          THEN get_semaforo_by_casa(ALERTAS_SEMAFORO, id_casa,
                                                    "ALERTAS_SEMAFORO" \in fallas)
                          ELSE <<>>
        semaforo_info == IF semaforo_leido = <<>> /\ id_casa # 0
                         THEN SemaforoPorDefecto(id_casa, hoy)
                         ELSE IF id_casa # 0 THEN semaforo_leido[1]
                         ELSE [ID_CASA |-> 0]
        movimientos_data == get_records_by_casa_id(MOVIMIENTOS, id_casa)
        saldo_calculado == SaldoCalculado(movimientos_data)
        semaforo_result ==
            IF id_casa # 0
            THEN [ID_CASA |-> id_casa,
                  SALDO |-> Round2(DictGet(semaforo_info, "SALDO_PENDIENTE", 0)),
                  ESTADO_SEMAFORO |-> DictGet(semaforo_info, "ESTADO_SEMAFORO", "VERDE"),
                  DIAS_ATRASO |-> DictGet(semaforo_info, "DIAS_ATRASO", 0),
                  CUOTAS_PENDIENTES |-> DictGet(semaforo_info, "CUOTAS_PENDIENTES", 0)]
            ELSE [ID_CASA |-> 0, SALDO |-> Round2(saldo_calculado),
                  ESTADO_SEMAFORO |-> "N/A", DIAS_ATRASO |-> 0, CUOTAS_PENDIENTES |-> 0]
        \* round(saldo_final, 2) of a value that is a number of cents already
        saldo_final == semaforo_result.SALDO
    IN  /\ resp' =
             IF user_info = <<>>
             THEN Respuesta("get_estado_cuenta", 404, "error", <<>>)
             ELSE IF "MOVIMIENTOS" \in fallas
                     \/ \E i \in 1..Len(movimientos_data) :
                           \/ MontoValRaises(movimientos_data[i].MONTO)
                           \/ FechaRegistroRaises(movimientos_data[i].FECHA_REGISTRO)
             THEN Respuesta("get_estado_cuenta", 500, "error", <<>>)
             ELSE Respuesta("get_estado_cuenta", 200, "success",
                      << [condomino |-> id_casa,
                          semaforo_actual |-> semaforo_result,
                          movimientos |-> [i \in 1..Len(movimientos_data) |->
                                              MontoVal(movimientos_data[i].MONTO)],
                          saldo_pendiente |-> saldo_final] >>)
        /\ writeLog' = <<>>
        /\ UNCHANGED <<USUARIOS, MOVIMIENTOS, ALERTAS_SEMAFORO, CONFIGURACION, hoy, enCurso>>

\* GET /admin/estado-cuenta/{id_casa}
get_estado_cuenta ==
    \E id_casa \in CasasConsulta, fallas \in SUBSET HojasConsulta :
        get_estado_cuenta_con(id_casa, fallas)

\* the loop of get_condomino_estado_cuenta from the record at the head on: st
\* carries saldo_pendiente and movimientos_list. float(record.get('MONTO', 0.0))
\* raises ValueError on a blank or a text and the record is skipped; the amount
\* is added to saldo_pendiente before FECHA_REGISTRO is parsed, and a record
\* whose FECHA_REGISTRO raises is skipped after that
RECURSIVE RecorrerMovimientos(_, _)
RecorrerMovimientos(movimientos_data, st) ==
    IF movimientos_data = <<>> THEN st
    ELSE LET record == Head(movimientos_data)
         IN  IF ~IsFloat(record.MONTO)
             THEN RecorrerMovimientos(Tail(movimientos_data), st)
             ELSE IF FechaRegistroRaises(record.FECHA_REGISTRO)
             THEN RecorrerMovimientos(Tail(movimientos_data),
                      [st EXCEPT !.saldo_pendiente = @ + record.MONTO.n])
             ELSE RecorrerMovimientos(Tail(movimientos_data),
                      [saldo_pendiente |-> st.saldo_pendiente + record.MONTO.n,
                       movimientos_list |-> Append(st.movimientos_list, record.MONTO.n)])

\* get_condomino_estado_cuenta for the house of the token when the reads of the
\* sheets in fallas fail
get_condomino_estado_cuenta_con(casa_id, fallas) ==
    LET movimientos_data == get_records_by_casa_id(MOVIMIENTOS, casa_id)
        semaforo_data == get_semaforo_by_casa(ALERTAS_SEMAFORO, casa_id,
                                              "ALERTAS_SEMAFORO" \in fallas)
        recorrido == RecorrerMovimientos(movimientos_data,
                         [saldo_pendiente |-> 0, movimientos_list |-> <<>>])
        movimientos_list == recorrido.movimientos_list
        saldo_pendiente == recorrido.saldo_pendiente
        hay_semaforo == semaforo_data # <<>> /\ semaforo_data[1].ESTADO_SEMAFORO # ""
    IN  /\ resp' =
             IF "MOVIMIENTOS" \in fallas
             THEN Respuesta("get_condomino_estado_cuenta", 500, "error", <<>>)
             ELSE Respuesta("get_condomino_estado_cuenta", 200, "success",
                      << [id_casa |-> casa_id,
                          movimientos |-> movimientos_list,
                          saldo_pendiente |-> Round2(saldo_pendiente),
                          estado_semaforo |-> IF hay_semaforo
                                              THEN DictGet(semaforo_data[1], "ESTADO_SEMAFORO", "VERDE")
                                              ELSE "NO_INFO",
                          dias_atraso |-> IF hay_semaforo
                                          THEN DictGet(semaforo_data[1], "DIAS_ATRASO", 0)
                                          ELSE 0,
                          cuotas_pendientes |-> IF hay_semaforo
                                                THEN DictGet(semaforo_data[1], "CUOTAS_PENDIENTES", 0)
                                                ELSE 0] >>)
        /\ writeLog' = <<>>
        /\ UNCHANGED <<USUARIOS, MOVIMIENTOS, ALERTAS_SEMAFORO, CONFIGURACION, hoy, enCurso>>

\* GET /condomino/estado_cuenta
get_condomino_estado_cuenta ==
    \E casa_id \in CasasConsulta, fallas \in SUBSET HojasConsulta :
        get_condomino_estado_cuenta_con(casa_id, fallas)

\* MONTO cells of MOVIMIENTOS that were not written by the endpoints
EditedCells(sheet) == Cardinality({i \in 1..Len(sheet) : ~IsFloat(sheet[i].MONTO)})

\* the spreadsheet is edited by hand: an amount is replaced by text
EditarCelda ==
    \E i \in 1..Len(MOVIMIENTOS) :
        /\ EditedCells(MOVIMIENTOS) < MaxEdits
        /\ IsFloat(MOVIMIENTOS[i].MONTO)
        /\ MOVIMIENTOS' = [MOVIMIENTOS EXCEPT ![i].MONTO = TextCell]
        /\ resp' = SinRespuesta
        /\ writeLog' = <<>>
        /\ UNCHANGED <<USUARIOS, ALERTAS_SEMAFORO, CONFIGURACION, hoy, enCurso>>

Next ==
    \/ register_pago
    \/ register_multa
    \/ register_alicuotas_masivas
    \/ register_tesoreria_transaccion
    \/ actualizar_semaforo
    \/ EditarCelda

Spec == Init /\ [][Next]_vars

----------------------------------------------------------------------------
(* The consolidation as a function of the ledger it is handed: the sheet  *)
(* MOVIMIENTOS holds any rows of house 1, written by the endpoints or by  *)
(* hand, possibly followed by one charge of house 2, and                  *)
(* actualizar_semaforo runs on it.                                        *)

\* the rows of house 1 a MOVIMIENTOS sheet may hold: tipo, MONTO, FECHA_VENCIMIENTO
FilasCasa ==
    { <<"ALICUOTA", NumCell(10), DateCell(5)>>,
      <<"ALICUOTA", NumCell(10), DateCell(36)>>,
      <<"PAGO", NumCell(-10), EmptyCell>>,
      <<"PAGO", NumCell(-6), EmptyCell>>,
      <<"MULTA", NumCell(4), EmptyCell>>,
      <<"alicuota", NumCell(10), DateCell(5)>>,
      <<"ALICUOTA", NumCell(10), TextCell>>,
      <<"ALICUOTA", TextCell, DateCell(5)>>,
      <<"ALICUOTA", NumCell(-4), DateCell(5)>>,
      <<"MULTA", NumCell(10), DateCell(5)>>,
      <<"ALICUOTA", NumCell(10), NumCell(45662)>> }

\* the rows of house 2 that may follow them
FilasOtraCasa == { <<"ALICUOTA", NumCell(10), DateCell(36)>> }

\* the sheet made of the rows f of house 1 and g of house 2, numbered M0001,
\* M0002, ... from the top
SheetOf(f, g) ==
    [i \in 1..(Len(f) + Len(g)) |->
        IF i <= Len(f)
        THEN NewRow(<<"M">> \o Pad04(StrOf(i)), 1, "2025-01", f[i][1], f[i][2], f[i][3])
        ELSE NewRow(<<"M">> \o Pad04(StrOf(i)), 2, "2025-01",
                    g[i - Len(f)][1], g[i - Len(f)][2], g[i - Len(f)][3])]

Ledgers == UNION {[1..n -> FilasCasa] : n \in 0..MaxFilas}

LedgersOtraCasa == UNION {[1..n -> FilasOtraCasa] : n \in 0..1}

InitClasificar ==
    /\ USUARIOS = << [ID_CASA |-> 2, ESTADO |-> "ACTIVO"], [ID_CASA |-> 0, ESTADO |-> "ACTIVO"],
                     [ID_CASA |-> 1, ESTADO |-> "ACTIVO"] >>
    /\ \E f \in Ledgers, g \in LedgersOtraCasa : MOVIMIENTOS = SheetOf(f, g)
    /\ CONFIGURACION = ConfigDeFabrica
    /\ ALERTAS_SEMAFORO = <<>>
    /\ hoy \in DiasClasificar
    /\ resp = SinRespuesta
    /\ writeLog = <<>>
    /\ enCurso = SinLlamadas

NextClasificar == actualizar_semaforo

SpecClasificar == InitClasificar /\ [][NextClasificar]_vars

----------------------------------------------------------------------------
(* The id allocator as a function of the id column it reads: the sheet    *)
(* MOVIMIENTOS holds rows with any ids, written by the endpoints or by    *)
(* hand, and the allocator and the movement-creating endpoints run on it. *)

\* largest number of rows of a MOVIMIENTOS sheet the allocator is handed
MaxIds == 3

\* the values column 1 of MOVIMIENTOS may hold: ids of the allocator's form,
\* another prefix, a letter in the suffix, a blank cell, the bare prefix, and
\* a suffix of superscript digits
IdsExistentes ==
    { <<"M", "0", "0", "0", "1">>, <<"M", "0", "0", "0", "3">>, <<"X", "9", "9", "9", "9">>,
      <<"M", "9", "9", "9", "9">>, <<"M", "1", "2", "a">>, <<"M", "7">>, <<>>, <<"M">>,
      <<"M", "^2">> }

\* the sheet whose rows carry the ids f, from the top
SheetOfIds(f) ==
    [i \in 1..Len(f) |-> NewRow(f[i], 1, "2025-01", "MULTA", NumCell(4), EmptyCell)]

IdColumns == UNION {[1..n -> IdsExistentes] : n \in 0..MaxIds}

InitNextId ==
    /\ USUARIOS = << [ID_CASA |-> 0, ESTADO |-> "ACTIVO"], [ID_CASA |-> 1, ESTADO |-> "ACTIVO"] >>
    /\ \E f \in IdColumns : MOVIMIENTOS = SheetOfIds(f)
    /\ CONFIGURACION \in ConfigSheets
    /\ ALERTAS_SEMAFORO = <<>>
    /\ hoy = DIA_VENCIMIENTO
    /\ resp = SinRespuesta
    /\ writeLog = <<>>
    /\ enCurso = SinLlamadas

\* one call of SheetsService.generate_next_movement_id: the id it returns, or
\* the exception it raises
generar_id ==
    /\ resp' = IF GenerateIdRaises(IdColumn(MOVIMIENTOS))
               THEN Respuesta("generate_next_movement_id", 500, "error", <<>>)
               ELSE Respuesta("generate_next_movement_id", 200, "success",
                              <<generate_next_movement_id(IdColumn(MOVIMIENTOS))>>)
    /\ writeLog' = <<>>
    /\ UNCHANGED <<USUARIOS, MOVIMIENTOS, ALERTAS_SEMAFORO, CONFIGURACION, hoy, enCurso>>

NextNextId ==
    \/ generar_id
    \/ register_pago
    \/ register_multa
    \/ register_alicuotas_masivas
    \/ register_tesoreria_transaccion

SpecNextId == InitNextId /\ [][NextNextId]_vars

----------------------------------------------------------------------------
(* The account statements: the sheet MOVIMIENTOS holds any rows of house  *)
(* 1, written by the endpoints or by hand, possibly followed by one       *)
(* charge of house 2; movements are registered, the consolidation runs,   *)
(* and the administrator's and the resident's statements are asked for.   *)

\* largest number of rows of house 1 in the MOVIMIENTOS sheet the statements
\* start from
MaxFilasConsulta == 2

\* the rows of house 1 that sheet may hold: tipo, MONTO, FECHA_VENCIMIENTO,
\* FECHA_REGISTRO
FilasConsulta ==
    { <<"ALICUOTA", NumCell(25000), DateCell(5), FechaHoraCell>>,
      <<"PAGO", NumCell(-6), EmptyCell, FechaHoraCell>>,
      <<"ALICUOTA", TextCell, DateCell(5), FechaHoraCell>>,
      <<"MULTA", EmptyCell, EmptyCell, FechaHoraCell>>,
      <<"MULTA", NumCell(5000), EmptyCell, TextCell>> }

LedgersConsulta == UNION {[1..n -> FilasConsulta] : n \in 0..MaxFilasConsulta}

\* the sheet made of the rows f of house 1 and g of house 2, each row of house
\* 1 with its FECHA_REGISTRO cell
SheetOfConsulta(f, g) ==
    [i \in 1..(Len(f) + Len(g)) |->
        IF i <= Len(f)
        THEN [SheetOf(f, g)[i] EXCEPT !.FECHA_REGISTRO = f[i][4]]
        ELSE SheetOf(f, g)[i]]

InitEstadoCuenta ==
    /\ USUARIOS \in UserSheets
    /\ \E f \in LedgersConsulta, g \in LedgersOtraCasa : MOVIMIENTOS = SheetOfConsulta(f, g)
    /\ CONFIGURACION = ConfigDeFabrica
    /\ ALERTAS_SEMAFORO = <<>>
    /\ hoy = 40
    /\ resp = SinRespuesta
    /\ writeLog = <<>>
    /\ enCurso = SinLlamadas

NextEstadoCuenta ==
    \/ register_pago
    \/ register_multa
    \/ register_alicuotas_masivas
    \/ register_tesoreria_transaccion
    \/ actualizar_semaforo
    \/ get_estado_cuenta
    \/ get_condomino_estado_cuenta

SpecEstadoCuenta == InitEstadoCuenta /\ [][NextEstadoCuenta]_vars

----------------------------------------------------------------------------
(* The handlers called directly: register_pago, register_multa and        *)
(* register_alicuotas_masivas run on objects that did not pass through    *)
(* the schemas PagoCreation, MultaCreation and AlicuotaCreation.          *)

\* amounts Field(..., gt=0.0) would reject, in amount units
MontosNoPositivos == {0, -25000}

register_pago_directo ==
    \E casa \in CasasRequest, monto \in MontosNoPositivos, storeFails \in BOOLEAN :
        register_pago_con(casa, monto, storeFails)

register_multa_directo ==
    \E casa \in CasasRequest, monto \in MontosNoPositivos, storeFails \in BOOLEAN :
        register_multa_con(casa, monto, storeFails)

register_alicuotas_directo ==
    \E periodo \in Periodos, usuariosFails \in BOOLEAN, configFails \in BOOLEAN :
        register_alicuotas_con(periodo, usuariosFails, configFails)

NextDirecto ==
    \/ register_pago_directo
    \/ register_multa_directo
    \/ register_alicuotas_directo

SpecDirecto == Init /\ [][NextDirecto]_vars

----------------------------------------------------------------------------
(* Two callers at once: each request is a sequence of calls of the store, *)
(* and the calls of the two callers interleave. register_pago reads the   *)
(* id column and then appends; actualizar_semaforo reads USUARIOS and     *)
(* MOVIMIENTOS and then, for each house, searches ALERTAS_SEMAFORO and    *)
(* writes the row. The store answers every call.                          *)

\* requests caller p has in progress that will append a movement
PorAgregar == Cardinality({p \in Llamadores : enCurso[p].op = "register_pago"})

\* register_pago of caller p up to the return of generate_next_movement_id
pago_generar_id(p) ==
    \E casa \in CasasRequest, monto \in MontosPago :
        /\ enCurso[p] = Libre
        /\ Len(MOVIMIENTOS) + PorAgregar < MaxMovs
        /\ IF GenerateIdRaises(IdColumn(MOVIMIENTOS))
           THEN /\ resp' = Respuesta("register_pago", 500, "error", <<>>)
                /\ UNCHANGED enCurso
           ELSE /\ enCurso' = [enCurso EXCEPT ![p] =
                       [op |-> "register_pago", casa |-> casa, monto |-> monto,
                        all_ids |-> IdColumn(MOVIMIENTOS),
                        next_id |-> generate_next_movement_id(IdColumn(MOVIMIENTOS))]]
                /\ UNCHANGED resp
        /\ UNCHANGED <<USUARIOS, MOVIMIENTOS, ALERTAS_SEMAFORO, CONFIGURACION, hoy, writeLog>>

\* variant: the id is allocated again when the row is appended
IdAlAgregar_Reasignado(p) == generate_next_movement_id(IdColumn(MOVIMIENTOS))

\* new_row[0] of register_pago: the next_id the handler got before
IdAlAgregar(p) == enCurso[p].next_id

\* register_pago of caller p from there on: append_movement and the answer
pago_append_movement(p) ==
    /\ enCurso[p].op = "register_pago"
    /\ LET monto_negativo == -Abs(enCurso[p].monto)
           new_row == NewRow(IdAlAgregar(p), enCurso[p].casa, MesPeriodoDe(hoy), "PAGO",
                             NumCell(monto_negativo), EmptyCell)
       IN  MOVIMIENTOS' = append_movement(MOVIMIENTOS, new_row)
    /\ resp' = Respuesta("register_pago", 200, "success", <<>>)
    /\ enCurso' = [enCurso EXCEPT ![p] = Libre]
    /\ UNCHANGED <<USUARIOS, ALERTAS_SEMAFORO, CONFIGURACION, hoy, writeLog>>

\* actualizar_semaforo of caller p up to the loop: the reads of USUARIOS and
\* of MOVIMIENTOS
semaforo_leer(p) ==
    LET casa_ids == SinTesoreria(get_all_casa_ids(USUARIOS, FALSE))
    IN  /\ enCurso[p] = Libre
        /\ IF casa_ids = <<>>
           THEN /\ resp' = Respuesta("actualizar_semaforo", 200, "warning", <<>>)
                /\ UNCHANGED enCurso
           ELSE /\ enCurso' = [enCurso EXCEPT ![p] =
                       [op |-> "actualizar_semaforo", casa_ids |-> casa_ids,
                        movimientos_data |-> MOVIMIENTOS, k |-> 1,
                        row_index_to_update |-> -1, results |-> <<>>]]
                /\ UNCHANGED resp
        /\ UNCHANGED <<USUARIOS, MOVIMIENTOS, ALERTAS_SEMAFORO, CONFIGURACION, hoy, writeLog>>

\* the house the run of caller p is at, and its classification
CasaEnCurso(p) == enCurso[p].casa_ids[enCurso[p].k]

ClasificacionEnCurso(p) ==
    ClasificarCasa(MovimientosCasa(enCurso[p].movimientos_data, CasaEnCurso(p)), hoy)

\* the run of caller p classifies its house and update_or_append_semaforo
\* reads ALERTAS_SEMAFORO and searches the row of the house
semaforo_buscar(p) ==
    /\ enCurso[p].op = "actualizar_semaforo"
    /\ enCurso[p].row_index_to_update = -1
    /\ IF ClasificacionEnCurso(p).error
       THEN /\ resp' = Respuesta("actualizar_semaforo", 500, "error", <<>>)
            /\ enCurso' = [enCurso EXCEPT ![p] = Libre]
       ELSE /\ enCurso' = [enCurso EXCEPT ![p].row_index_to_update =
                               RowIndexToUpdate(ALERTAS_SEMAFORO, CasaEnCurso(p))]
            /\ UNCHANGED resp
    /\ UNCHANGED <<USUARIOS, MOVIMIENTOS, ALERTAS_SEMAFORO, CONFIGURACION, hoy, writeLog>>

\* update_or_append_semaforo of the run of caller p writes the row; after the
\* last house the run answers with its results
semaforo_escribir(p) ==
    /\ enCurso[p].op = "actualizar_semaforo"
    /\ enCurso[p].row_index_to_update # -1
    /\ LET c == ClasificacionEnCurso(p)
           casa_id == CasaEnCurso(p)
           new_data == NewData(casa_id, c.dias, Round2(c.saldo), c.estado, c.cuotas, hoy)
           results == Append(enCurso[p].results, SemaforoResult(casa_id, c))
       IN  /\ ALERTAS_SEMAFORO' = UpdateOrAppendRow(ALERTAS_SEMAFORO,
                                      enCurso[p].row_index_to_update, new_data)
           /\ IF enCurso[p].k = Len(enCurso[p].casa_ids)
              THEN /\ resp' = Respuesta("actualizar_semaforo", 200, "success", results)
                   /\ enCurso' = [enCurso EXCEPT ![p] = Libre]
              ELSE /\ enCurso' = [enCurso EXCEPT ![p].k = @ + 1,
                                                 ![p].row_index_to_update = -1,
                                                 ![p].results = results]
                   /\ UNCHANGED resp
    /\ UNCHANGED <<USUARIOS, MOVIMIENTOS, CONFIGURACION, hoy, writeLog>>

NextConcurrente ==
    \E p \in Llamadores :
        \/ pago_generar_id(p)
        \/ pago_append_movement(p)
        \/ semaforo_leer(p)
        \/ semaforo_buscar(p)
        \/ semaforo_escribir(p)

SpecConcurrente == Init /\ [][NextConcurrente]_vars

----------------------------------------------------------------------------
(* What the claims speak about, read off the sheets and the response *)

\* the last request was a consolidation that returned its results
RunOk == resp.op = "actualizar_semaforo" /\ resp.status = "success"

\* the rows of MOVIMIENTOS that belong to house e
FilasDe(e) == {i \in 1..Len(MOVIMIENTOS) : MOVIMIENTOS[i].ID_CASA = e}

\* the amount of row i, nothing when the cell holds no number
Importe(i) == IF MOVIMIENTOS[i].MONTO.k = "num" THEN MOVIMIENTOS[i].MONTO.n ELSE 0

RECURSIVE SumaFilas(_)
SumaFilas(S) ==
    IF S = {} THEN 0
    ELSE LET i == CHOOSE j \in S : TRUE IN Importe(i) + SumaFilas(S \ {i})

\* the balance of house e: the sum of the amounts of its movements
BalanceDe(e) == SumaFilas(FilasDe(e))

\* the overdue charges of house e: kind ALICUOTA, amount > 0, a due date that
\* is a date and is not after today
VencidasDe(e) ==
    {i \in FilasDe(e) :
        /\ MOVIMIENTOS[i].TIPO_MOVIMIENTO \in {"ALICUOTA", "alicuota"}
        /\ MOVIMIENTOS[i].MONTO.k = "num"
        /\ MOVIMIENTOS[i].MONTO.n > 0
        /\ MOVIMIENTOS[i].FECHA_VENCIMIENTO.k = "date"
        /\ MOVIMIENTOS[i].FECHA_VENCIMIENTO.n <= hoy}

\* the earliest due date among the overdue charges of house e
PrimerVencimiento(e) ==
    CHOOSE d \in {MOVIMIENTOS[i].FECHA_VENCIMIENTO.n : i \in VencidasDe(e)} :
        \A i \in VencidasDe(e) : d <= MOVIMIENTOS[i].FECHA_VENCIMIENTO.n

\* the houses the run has to consolidate: listed ACTIVO in USUARIOS, not the treasury
ActivasNoTesoreria ==
    {USUARIOS[i].ID_CASA : i \in {j \in 1..Len(USUARIOS) : USUARIOS[j].ESTADO \in {"ACTIVO", "activo"}}} \ {0}

\* what the run said of each house: the entries of the results it returned and
\* the rows it wrote to ALERTAS_SEMAFORO
Veredictos ==
    {[ID_CASA |-> resp.results[i].ID_CASA, SALDO |-> resp.results[i].SALDO,
      ESTADO |-> resp.results[i].ESTADO_SEMAFORO, DIAS |-> resp.results[i].DIAS_ATRASO,
      CUOTAS |-> resp.results[i].CUOTAS_PENDIENTES] : i \in 1..Len(resp.results)}
    \cup
    {[ID_CASA |-> ALERTAS_SEMAFORO[i].ID_CASA, SALDO |-> ALERTAS_SEMAFORO[i].SALDO_PENDIENTE,
      ESTADO |-> ALERTAS_SEMAFORO[i].ESTADO_SEMAFORO, DIAS |-> ALERTAS_SEMAFORO[i].DIAS_ATRASO,
      CUOTAS |-> ALERTAS_SEMAFORO[i].CUOTAS_PENDIENTES] :
        i \in {j \in 1..Len(ALERTAS_SEMAFORO) :
                 \E w \in 1..Len(writeLog) :
                    writeLog[w].ok /\ writeLog[w].ID_CASA = ALERTAS_SEMAFORO[j].ID_CASA}}

\* GREEN < YELLOW < RED
Rango(estado) == CASE estado = "VERDE" -> 0 [] estado = "AMARILLO" -> 1 [] estado = "ROJO" -> 2

\* c is x (amount units) rounded to cents
EsRedondeo(x, c) == 2 * Abs(Cent * c - x) < Cent

----------------------------------------------------------------------------
(* Claims *)

\* C1: a house whose movements sum to zero or less is classified VERDE with
\* no pending dues and no days overdue, however many of its dues are past due.
C1_BalanceGate ==
    RunOk => \A v \in Veredictos :
        BalanceDe(v.ID_CASA) <= 0 => v.ESTADO = "VERDE" /\ v.CUOTAS = 0 /\ v.DIAS = 0

C1_Witness ==
    /\ RunOk
    /\ \E v \in Veredictos :
          /\ BalanceDe(v.ID_CASA) <= 0
          /\ VencidasDe(v.ID_CASA) # {}
          /\ v.ESTADO = "VERDE"

\* C2 as stated: with a positive balance and an overdue charge the state is
\* ROJO iff 30 days or more, AMARILLO iff 15 to 29 days, VERDE iff under 15.
C2_TresNiveles ==
    RunOk => \A v \in Veredictos :
        (BalanceDe(v.ID_CASA) > 0 /\ VencidasDe(v.ID_CASA) # {}) =>
            /\ v.ESTADO = "ROJO" <=> v.DIAS >= 30
            /\ v.ESTADO = "AMARILLO" <=> (v.DIAS >= 15 /\ v.DIAS < 30)
            /\ v.ESTADO = "VERDE" <=> v.DIAS < 15

\* C2 amended: with a balance above 0.01 and an overdue charge the state is
\* ROJO iff 30 days or more and AMARILLO iff under 30 days; never VERDE.
C2_DosNiveles ==
    RunOk => \A v \in Veredictos :
        (BalanceDe(v.ID_CASA) > Cent /\ VencidasDe(v.ID_CASA) # {}) =>
            /\ v.ESTADO = "ROJO" <=> v.DIAS >= 30
            /\ v.ESTADO = "AMARILLO" <=> v.DIAS < 30

C2_Witness ==
    /\ RunOk
    /\ \E v \in Veredictos :
          /\ BalanceDe(v.ID_CASA) > Cent
          /\ VencidasDe(v.ID_CASA) # {}
          /\ v.DIAS = 5
          /\ v.ESTADO = "AMARILLO"

C4_Monotona ==
    RunOk =>
        LET conMora == {v \in Veredictos :
                           BalanceDe(v.ID_CASA) > 0 /\ VencidasDe(v.ID_CASA) # {}}
        IN  /\ \A v1 \in conMora, v2 \in conMora :
                  v1.DIAS < v2.DIAS => Rango(v1.ESTADO) <= Rango(v2.ESTADO)
            /\ \A v \in conMora : v.ESTADO = "ROJO" <=> v.DIAS >= 30

C4_Witness ==
    /\ RunOk
    /\ \E v1 \in Veredictos, v2 \in Veredictos :
          /\ BalanceDe(v1.ID_CASA) > 0 /\ VencidasDe(v1.ID_CASA) # {}
          /\ BalanceDe(v2.ID_CASA) > 0 /\ VencidasDe(v2.ID_CASA) # {}
          /\ v1.DIAS < 30 /\ v1.ESTADO = "AMARILLO"
          /\ v2.DIAS >= 30 /\ v2.ESTADO = "ROJO"

\* C5 as stated: with a positive balance and overdue charges, the days overdue
\* are today minus the earliest overdue due date, whatever the ledger order.
C5_DiasSaldoPositivo ==
    RunOk => \A v \in Veredictos :
        (BalanceDe(v.ID_CASA) > 0 /\ VencidasDe(v.ID_CASA) # {}) =>
            v.DIAS = hoy - PrimerVencimiento(v.ID_CASA) /\ v.DIAS >= 0

\* C5 amended: with a balance above 0.01 and overdue charges, the days overdue
\* are today minus the earliest overdue due date, whatever the ledger order.
C5_DiasSobreTolerancia ==
    RunOk => \A v \in Veredictos :
        (BalanceDe(v.ID_CASA) > Cent /\ VencidasDe(v.ID_CASA) # {}) =>
            v.DIAS = hoy - PrimerVencimiento(v.ID_CASA) /\ v.DIAS >= 0

C5_Witness ==
    /\ RunOk
    /\ \E v \in Veredictos :
          /\ BalanceDe(v.ID_CASA) > Cent
          /\ \E i \in VencidasDe(v.ID_CASA), j \in VencidasDe(v.ID_CASA) :
                /\ i < j
                /\ MOVIMIENTOS[i].FECHA_VENCIMIENTO.n > MOVIMIENTOS[j].FECHA_VENCIMIENTO.n
          /\ v.DIAS = hoy - PrimerVencimiento(v.ID_CASA)

\* C6 as stated: with a positive balance, the pending dues are the number of
\* the house's ALICUOTA movements with amount > 0 and a due date that parses
\* and is today or earlier; no other movement is counted.
C6_CuotasSaldoPositivo ==
    RunOk => \A v \in Veredictos :
        BalanceDe(v.ID_CASA) > 0 => v.CUOTAS = Cardinality(VencidasDe(v.ID_CASA))

\* C6 amended: the same count, for a balance above 0.01.
C6_CuotasSobreTolerancia ==
    RunOk => \A v \in Veredictos :
        BalanceDe(v.ID_CASA) > Cent => v.CUOTAS = Cardinality(VencidasDe(v.ID_CASA))

C6_Witness ==
    /\ RunOk
    /\ \E v \in Veredictos :
          /\ BalanceDe(v.ID_CASA) > Cent
          /\ v.CUOTAS = 1
          /\ \E i \in VencidasDe(v.ID_CASA) : MOVIMIENTOS[i].FECHA_VENCIMIENTO.n = hoy
          /\ \E j \in FilasDe(v.ID_CASA) \ VencidasDe(v.ID_CASA) :
                MOVIMIENTOS[j].FECHA_VENCIMIENTO.k = "date"

\* house e has a movement whose amount does not parse
TieneMalformado(e) == \E i \in FilasDe(e) : MOVIMIENTOS[i].MONTO.k # "num"

\* the entries of the returned results that are about house e
EntradasDe(e) == {i \in 1..Len(resp.results) : resp.results[i].ID_CASA = e}

\* the calls of update_or_append_semaforo the run made for house e
EscriturasDe(e) == {w \in 1..Len(writeLog) : writeLog[w].ID_CASA = e}

\* C7: after a consolidation run the balance written and returned for a house
\* is the sum of the amounts of that house's movements only, rounded to two
\* decimals, and a house with no movements gets 0.00, VERDE, 0 dues, 0 days.
C7_SaldoPorCasa ==
    RunOk =>
        /\ \A e \in ActivasNoTesoreria : \E v \in Veredictos : v.ID_CASA = e
        /\ \A v \in Veredictos :
              /\ EsRedondeo(BalanceDe(v.ID_CASA), v.SALDO)
              /\ FilasDe(v.ID_CASA) = {} =>
                    v.SALDO = 0 /\ v.ESTADO = "VERDE" /\ v.CUOTAS = 0 /\ v.DIAS = 0

C7_Witness ==
    /\ RunOk
    /\ FilasDe(0) # {}
    /\ \E v \in Veredictos, w \in Veredictos :
          /\ FilasDe(v.ID_CASA) # {}
          /\ Cent * v.SALDO # BalanceDe(v.ID_CASA)
          /\ FilasDe(w.ID_CASA) = {}
          /\ w.SALDO = 0 /\ w.ESTADO = "VERDE"

C9_CasaOmitida ==
    RunOk =>
        /\ \A e \in ActivasNoTesoreria : TieneMalformado(e) => EntradasDe(e) = {}
        /\ Len(resp.results) = Cardinality({e \in ActivasNoTesoreria : ~TieneMalformado(e)})

\* C9 amended: a house with a movement whose amount does not parse still gets
\* its entry in the returned results, as every other active house does, and
\* the number of results is the number of active houses other than the treasury.
C9_CasaClasificada ==
    RunOk =>
        /\ \A e \in ActivasNoTesoreria : Cardinality(EntradasDe(e)) = 1
        /\ Len(resp.results) = Cardinality(ActivasNoTesoreria)

C9_Witness ==
    /\ RunOk
    /\ \E e \in ActivasNoTesoreria, f \in ActivasNoTesoreria :
          /\ TieneMalformado(e) /\ EntradasDe(e) # {}
          /\ ~TieneMalformado(f) /\ EntradasDe(f) # {}

\* the sheet holds no two rows with the same ID_CASA
UnaFilaPorCasa(sheet) ==
    \A i \in 1..Len(sheet), j \in 1..Len(sheet) : sheet[i].ID_CASA = sheet[j].ID_CASA => i = j

\* C10: with one writer, every step leaves ALERTAS_SEMAFORO with at most one
\* row per house: a row that exists keeps its place and its house (it is
\* updated in place), and a row is appended only for a house that had none.
C10_UnaFilaPorCasa ==
    [][ /\ UnaFilaPorCasa(ALERTAS_SEMAFORO')
        /\ Len(ALERTAS_SEMAFORO') >= Len(ALERTAS_SEMAFORO)
        /\ \A i \in 1..Len(ALERTAS_SEMAFORO) :
              ALERTAS_SEMAFORO'[i].ID_CASA = ALERTAS_SEMAFORO[i].ID_CASA
        /\ \A i \in (Len(ALERTAS_SEMAFORO) + 1)..Len(ALERTAS_SEMAFORO') :
              \A j \in 1..Len(ALERTAS_SEMAFORO) :
                 ALERTAS_SEMAFORO[j].ID_CASA # ALERTAS_SEMAFORO'[i].ID_CASA ]_vars

C10_Witness ==
    /\ RunOk
    /\ Len(writeLog) = 2
    /\ writeLog[1].ok /\ writeLog[2].ok
    /\ writeLog[1].ID_CASA = 1
    /\ Len(ALERTAS_SEMAFORO) = 2
    /\ ALERTAS_SEMAFORO[1].ID_CASA = 2

\* C11: a consolidation run during which the read of the active houses or the
\* read of the movements fails ends in an error, never in a success or a
\* warning, and leaves ALERTAS_SEMAFORO as it was.
C11_FallaDeLecturaAborta ==
    [][ (actualizar_semaforo_con(<<"USUARIOS", 0>>) \/ actualizar_semaforo_con(<<"MOVIMIENTOS", 0>>))
            => (resp'.status = "error" /\ UNCHANGED ALERTAS_SEMAFORO) ]_vars

\* the decimal digits and their values
ValorDigito(c) ==
    CASE c = "0" -> 0 [] c = "1" -> 1 [] c = "2" -> 2 [] c = "3" -> 3 [] c = "4" -> 4
      [] c = "5" -> 5 [] c = "6" -> 6 [] c = "7" -> 7 [] c = "8" -> 8 [] c = "9" -> 9

EsDecimal(c) == c \in {"0", "1", "2", "3", "4", "5", "6", "7", "8", "9"}

\* id has the form 'M' followed by digits
EsIdM(id) == Len(id) >= 2 /\ id[1] = "M" /\ \A i \in 2..Len(id) : EsDecimal(id[i])

\* the number the digits s write
RECURSIVE NumeroDe(_)
NumeroDe(s) ==
    IF s = <<>> THEN 0 ELSE ValorDigito(Head(s)) * 10 ^ (Len(s) - 1) + NumeroDe(Tail(s))

\* the numeric suffixes of the ids of that form in column 1 of MOVIMIENTOS
SufijosM ==
    {NumeroDe(Tail(MOVIMIENTOS[i].ID_MOVIMIENTO)) :
        i \in {j \in 1..Len(MOVIMIENTOS) : EsIdM(MOVIMIENTOS[j].ID_MOVIMIENTO)}}

\* the allocator was called on the present ledger
IdPedido == resp.op = "generate_next_movement_id"

\* C12: the allocator never fails, whatever ids the ledger holds; the id it
\* returns is 'M' and the digits of 1 + the largest numeric suffix among the
\* ids of the form 'M' + digits, the others being ignored; it is M0001 when
\* the ledger is empty or holds no such id.
C12_SiguienteId ==
    IdPedido =>
        /\ resp.status = "success"
        /\ EsIdM(resp.results[1])
        /\ \A n \in SufijosM : NumeroDe(Tail(resp.results[1])) > n
        /\ \/ NumeroDe(Tail(resp.results[1])) - 1 \in SufijosM
           \/ SufijosM = {} /\ resp.results[1] = <<"M", "0", "0", "0", "1">>

\* C13: every id the allocator returns is one letter followed by exactly four
\* digits, whatever ids the ledger holds, 9999 as largest suffix included.
C13_AnchoFijo ==
    (IdPedido /\ resp.status = "success") =>
        /\ Len(resp.results[1]) = 5
        /\ resp.results[1][1] = "M"
        /\ \A i \in 2..5 : EsDecimal(resp.results[1][i])

\* no two rows of the sheet carry the same ID_MOVIMIENTO
IdsDistintas(sheet) ==
    \A i \in 1..Len(sheet), j \in 1..Len(sheet) :
        sheet[i].ID_MOVIMIENTO = sheet[j].ID_MOVIMIENTO => i = j

\* the rows a step appended to MOVIMIENTOS
FilasNuevas == (Len(MOVIMIENTOS) + 1)..Len(MOVIMIENTOS')

\* C14: with one writer, a step from a ledger with pairwise distinct ids leaves
\* the ids pairwise distinct, and every row it appends carries an id of the
\* form 'M' + digits whose number is above that of every such id before it.
C14_IdsUnicasCrecientes ==
    [][ IdsDistintas(MOVIMIENTOS) =>
          /\ IdsDistintas(MOVIMIENTOS')
          /\ \A i \in FilasNuevas :
                /\ EsIdM(MOVIMIENTOS'[i].ID_MOVIMIENTO)
                /\ \A j \in 1..(i - 1) :
                      EsIdM(MOVIMIENTOS'[j].ID_MOVIMIENTO) =>
                          NumeroDe(Tail(MOVIMIENTOS'[j].ID_MOVIMIENTO))
                              < NumeroDe(Tail(MOVIMIENTOS'[i].ID_MOVIMIENTO)) ]_vars

C14_Witness ==
    /\ resp.op = "register_alicuotas_masivas" /\ resp.status = "success"
    /\ Len(MOVIMIENTOS) = 3
    /\ MOVIMIENTOS[1].ID_MOVIMIENTO = <<"M", "0", "0", "0", "3">>
    /\ MOVIMIENTOS[2].ID_MOVIMIENTO = <<"M", "0", "0", "0", "4">>
    /\ MOVIMIENTOS[3].ID_MOVIMIENTO = <<"M", "0", "0", "0", "5">>

\* C15: every row appended by register_pago has an amount below zero, and every
\* row appended by register_multa or register_alicuotas_masivas an amount above
\* zero, whatever the request amount and the configured VALOR_ALICUOTA.
C15_SignoDeLosMovimientos ==
    [][ \A i \in FilasNuevas :
          /\ MOVIMIENTOS'[i].MONTO.k = "num"
          /\ MOVIMIENTOS'[i].TIPO_MOVIMIENTO = "PAGO" => MOVIMIENTOS'[i].MONTO.n < 0
          /\ MOVIMIENTOS'[i].TIPO_MOVIMIENTO \in {"MULTA", "ALICUOTA"} =>
                MOVIMIENTOS'[i].MONTO.n > 0 ]_vars

\* C16: a treasury transaction with a valid request, the store answering,
\* succeeds and appends one row for house 0 whose amount is the requested one,
\* positive for INGRESO and negative for EGRESO.
C16_TransaccionDeTesoreria ==
    [][ \A flujo \in FlujosTesoreria, monto \in MontosTesoreria :
          register_tesoreria_con(flujo, monto, FALSE) =>
              /\ resp'.status = "success"
              /\ Len(MOVIMIENTOS') = Len(MOVIMIENTOS) + 1
              /\ MOVIMIENTOS'[Len(MOVIMIENTOS')].ID_CASA = 0
              /\ MOVIMIENTOS'[Len(MOVIMIENTOS')].MONTO =
                     NumCell(IF flujo = "INGRESO" THEN monto ELSE -monto) ]_vars

HayEntrada(e) == \E i \in 1..Len(USUARIOS) : USUARIOS[i].ID_CASA = e

\* C18: the administrator's statement for a house other than the treasury
\* answers 404 (not found) exactly when USUARIOS was read and holds no entry
\* for the house; when the read of USUARIOS fails the answer is an error other
\* than 404.
C18_NoEncontradaSoloSinEntrada ==
    [][ \A id_casa \in CasasConsulta \ {0}, fallas \in SUBSET HojasConsulta :
          get_estado_cuenta_con(id_casa, fallas) =>
              /\ (resp'.code = 404) <=> ("USUARIOS" \notin fallas /\ ~HayEntrada(id_casa))
              /\ "USUARIOS" \in fallas => (resp'.status = "error" /\ resp'.code # 404) ]_vars

\* ALERTAS_SEMAFORO holds no row for house e: the house was never consolidated
SinFilaDeEstado(e) == \A i \in 1..Len(ALERTAS_SEMAFORO) : ALERTAS_SEMAFORO[i].ID_CASA # e

\* C19: for a house of the directory that has no row in ALERTAS_SEMAFORO, the
\* store answering, the administrator's statement and the resident's statement
\* both succeed and report the status VERDE with 0 days of delay and 0 pending
\* dues.
C19_EstadoPorDefecto ==
    [][ \A id_casa \in CasasConsulta \ {0} :
          (HayEntrada(id_casa) /\ SinFilaDeEstado(id_casa)) =>
              /\ get_estado_cuenta_con(id_casa, {}) =>
                    /\ resp'.status = "success"
                    /\ resp'.results[1].semaforo_actual.ESTADO_SEMAFORO = "VERDE"
                    /\ resp'.results[1].semaforo_actual.DIAS_ATRASO = 0
                    /\ resp'.results[1].semaforo_actual.CUOTAS_PENDIENTES = 0
              /\ get_condomino_estado_cuenta_con(id_casa, {}) =>
                    /\ resp'.status = "success"
                    /\ resp'.results[1].estado_semaforo = "VERDE"
                    /\ resp'.results[1].dias_atraso = 0
                    /\ resp'.results[1].cuotas_pendientes = 0 ]_vars

\* the balance the last consolidation wrote for house e, in cents
SaldoGuardado(e) ==
    ALERTAS_SEMAFORO[CHOOSE i \in 1..Len(ALERTAS_SEMAFORO) :
                         ALERTAS_SEMAFORO[i].ID_CASA = e].SALDO_PENDIENTE

\* C20: a successful administrator's statement for a house other than the
\* treasury reports as saldo_pendiente the sum of the house's amounts in
\* MOVIMIENTOS at the time of the request, in cents, and as semaforo_actual.SALDO
\* the balance the last consolidation wrote for the house in ALERTAS_SEMAFORO.
C20_DosSaldos ==
    [][ \A id_casa \in CasasConsulta \ {0} :
          (get_estado_cuenta_con(id_casa, {}) /\ resp'.status = "success") =>
              /\ resp'.results[1].saldo_pendiente = Round2(BalanceDe(id_casa))
              /\ ~SinFilaDeEstado(id_casa) =>
                    resp'.results[1].semaforo_actual.SALDO = SaldoGuardado(id_casa) ]_vars

\* C21: when USUARIOS holds an entry for house 0, the administrator's statement
\* for house 0 succeeds, whether or not ALERTAS_SEMAFORO can be read, and
\* reports as balance the sum of the amounts of house 0's movements, in cents,
\* with the status N/A, 0 days of delay and 0 pending dues.
C21_EstadoDeTesoreria ==
    [][ \A fallas \in SUBSET {"ALERTAS_SEMAFORO"} :
          (HayEntrada(0) /\ get_estado_cuenta_con(0, fallas)) =>
              /\ resp'.status = "success"
              /\ resp'.results[1].saldo_pendiente = Round2(BalanceDe(0))
              /\ resp'.results[1].semaforo_actual.SALDO = Round2(BalanceDe(0))
              /\ resp'.results[1].semaforo_actual.ESTADO_SEMAFORO = "N/A"
              /\ resp'.results[1].semaforo_actual.DIAS_ATRASO = 0
              /\ resp'.results[1].semaforo_actual.CUOTAS_PENDIENTES = 0 ]_vars

\* C22: called without the schemas in front, register_pago and register_multa
\* answer a non-positive MONTO, and register_alicuotas_masivas a malformed
\* MES_PERIODO, with an invalid-input error (400 or 422), and MOVIMIENTOS
\* stays as it was.
C22_RechazoDefensivo ==
    [][ /\ \A casa \in CasasRequest, monto \in MontosNoPositivos :
              (register_pago_con(casa, monto, FALSE) \/ register_multa_con(casa, monto, FALSE)) =>
                  (resp'.code \in {400, 422} /\ UNCHANGED MOVIMIENTOS)
        /\ \A periodo \in Periodos, usuariosFails \in BOOLEAN, configFails \in BOOLEAN :
              (MonthOfPeriodo(periodo) = 0
                  /\ register_alicuotas_con(periodo, usuariosFails, configFails)) =>
                  (resp'.code \in {400, 422} /\ UNCHANGED MOVIMIENTOS) ]_vars

\* C23: with two callers, register_pago gives no unique id: when caller p
\* appends its row to a ledger of pairwise distinct ids, the ids stay pairwise
\* distinct exactly when the id column is still the one p read when it got its
\* id; an append made by the other caller in between gives two rows one id.
C23_IdsBajoConcurrencia ==
    [][ \A p \in Llamadores :
          (IdsDistintas(MOVIMIENTOS) /\ pago_append_movement(p)) =>
              (IdsDistintas(MOVIMIENTOS') <=> enCurso[p].all_ids = IdColumn(MOVIMIENTOS)) ]_vars

C23_Witness ==
    /\ enCurso = SinLlamadas
    /\ resp.op = "register_pago" /\ resp.status = "success"
    /\ Len(MOVIMIENTOS) = 2
    /\ MOVIMIENTOS[1].ID_MOVIMIENTO = <<"M", "0", "0", "0", "1">>
    /\ MOVIMIENTOS[2].ID_MOVIMIENTO = <<"M", "0", "0", "0", "1">>

\* the balance of house e in the rows a run read, in cents
SaldoLeido(movimientos_data, e) == Round2(SaldoTotal(MovimientosCasa(movimientos_data, e), 0))

\* C24: with two callers, the status writes of a run are blind. The row a run
\* writes carries the balance of the movements the run read, whatever
\* MOVIMIENTOS and the row hold by then; and a write to a sheet with one row
\* per house keeps one row per house exactly when the row search of the run
\* still gives what it gave: when the other run appended the row of the house
\* in between, the house gets a second row.
C24_ActualizacionesPerdidas ==
    [][ \A p \in Llamadores :
          semaforo_escribir(p) =>
              /\ \E i \in 1..Len(ALERTAS_SEMAFORO') :
                    /\ ALERTAS_SEMAFORO'[i].ID_CASA = CasaEnCurso(p)
                    /\ ALERTAS_SEMAFORO'[i].SALDO_PENDIENTE =
                           SaldoLeido(enCurso[p].movimientos_data, CasaEnCurso(p))
                    /\ \A j \in 1..Len(ALERTAS_SEMAFORO) :
                          j # i => ALERTAS_SEMAFORO'[j] = ALERTAS_SEMAFORO[j]
              /\ UnaFilaPorCasa(ALERTAS_SEMAFORO) =>
                    (UnaFilaPorCasa(ALERTAS_SEMAFORO') <=>
                        enCurso[p].row_index_to_update
                            = RowIndexToUpdate(ALERTAS_SEMAFORO, CasaEnCurso(p))) ]_vars

\* both runs have ended; house 1 has two status rows, and the first, the one
\* every later search finds, holds a balance older than the second's, which is
\* the balance of MOVIMIENTOS
C24_Witness ==
    /\ enCurso = SinLlamadas
    /\ resp.op = "actualizar_semaforo" /\ resp.status = "success"
    /\ Len(ALERTAS_SEMAFORO) = 2
    /\ ALERTAS_SEMAFORO[1].ID_CASA = 1 /\ ALERTAS_SEMAFORO[2].ID_CASA = 1
    /\ ALERTAS_SEMAFORO[1].SALDO_PENDIENTE # Round2(BalanceDe(1))
    /\ ALERTAS_SEMAFORO[2].SALDO_PENDIENTE = Round2(BalanceDe(1))

\* C25: a consolidation run during which the write of a status row fails at
\* the store answers with an error; and a run that answers success returns
\* entries only for houses whose status row it wrote.
C25_FallaDeEscrituraAborta ==
    [][ /\ \A k \in 1..Len(USUARIOS) :
              actualizar_semaforo_con(<<"escribir", k>>) => resp'.status = "error"
        /\ (resp'.op = "actualizar_semaforo" /\ resp'.status = "success") =>
              \A i \in 1..Len(resp'.results) :
                 \E w \in 1..Len(writeLog') :
                    writeLog'[w].ID_CASA = resp'.results[i].ID_CASA /\ writeLog'[w].ok ]_vars

\* C26: a consolidation run the store answers does not abort on a malformed
\* record: it returns, for every active house, the balance of the amounts that
\* parse (a malformed amount counts as zero) and, for a house in debt, as
\* pending dues the number of overdue charges among the rows whose amount and
\* due date parse.
C26_RegistrosMalformadosAislados ==
    [][ actualizar_semaforo_con(<<"none", 0>>) =>
          /\ resp'.status \in {"success", "warning"}
          /\ \A e \in ActivasNoTesoreria :
                \E i \in 1..Len(resp'.results) :
                   /\ resp'.results[i].ID_CASA = e
                   /\ EsRedondeo(BalanceDe(e), resp'.results[i].SALDO)
                   /\ BalanceDe(e) > TOLERANCIA =>
                         resp'.results[i].CUOTAS_PENDIENTES = Cardinality(VencidasDe(e)) ]_vars

\* what house e has paid: the sum of its negative amounts, as a positive number
PagadoPor(e) == -SumaFilas({i \in FilasDe(e) : Importe(i) < 0})

\* the overdue charges of house e that its payments do not cover, the payments
\* being applied to the overdue charges in the order of their due dates
NoPagadasDe(e) ==
    {i \in VencidasDe(e) :
        PagadoPor(e) < SumaFilas({j \in VencidasDe(e) :
                                    MOVIMIENTOS[j].FECHA_VENCIMIENTO.n
                                        <= MOVIMIENTOS[i].FECHA_VENCIMIENTO.n})}

\* C27: after a consolidation run, for a house in debt whose movements are
\* dues and payments, the pending dues are the overdue charges its payments do
\* not cover, and the days of delay run from the earliest of these: a charge
\* already paid is not counted, even while newer charges keep the balance
\* positive.
C27_CuotasImpagas ==
    RunOk =>
        \A v \in Veredictos :
            (/\ BalanceDe(v.ID_CASA) > TOLERANCIA
             /\ \A i \in FilasDe(v.ID_CASA) :
                   /\ MOVIMIENTOS[i].TIPO_MOVIMIENTO \in {"ALICUOTA", "PAGO"}
                   /\ MOVIMIENTOS[i].MONTO.k = "num") =>
                /\ v.CUOTAS = Cardinality(NoPagadasDe(v.ID_CASA))
                /\ v.DIAS = IF NoPagadasDe(v.ID_CASA) = {} THEN 0
                            ELSE hoy - MOVIMIENTOS[CHOOSE i \in NoPagadasDe(v.ID_CASA) :
                                     \A j \in NoPagadasDe(v.ID_CASA) :
                                        MOVIMIENTOS[i].FECHA_VENCIMIENTO.n
                                            <= MOVIMIENTOS[j].FECHA_VENCIMIENTO.n].FECHA_VENCIMIENTO.n

\* C28: only the consolidation changes ALERTAS_SEMAFORO: a step of any other
\* endpoint (payment, fine, bulk dues, treasury transaction, the statements)
\* leaves the sheet as it was, and no step removes a row or gives a row to
\* another house.
C28_SoloLaConsolidacionEscribe ==
    [][ /\ resp'.op # "actualizar_semaforo" => ALERTAS_SEMAFORO' = ALERTAS_SEMAFORO
        /\ Len(ALERTAS_SEMAFORO') >= Len(ALERTAS_SEMAFORO)
        /\ \A i \in 1..Len(ALERTAS_SEMAFORO) :
              ALERTAS_SEMAFORO'[i].ID_CASA = ALERTAS_SEMAFORO[i].ID_CASA ]_vars

\* a payment was registered after the run that wrote the row of house 1, and
\* the row still holds the balance from before the payment
C28_Witness ==
    /\ resp.op = "register_pago" /\ resp.status = "success"
    /\ \E i \in 1..Len(ALERTAS_SEMAFORO) :
          /\ ALERTAS_SEMAFORO[i].ID_CASA = 1
          /\ ALERTAS_SEMAFORO[i].SALDO_PENDIENTE # Round2(BalanceDe(1))

RECURSIVE SumaDe(_)
SumaDe(montos) == IF montos = <<>> THEN 0 ELSE Head(montos) + SumaDe(Tail(montos))

\* C29: in a resident's statement, saldo_pendiente is the sum of the amounts
\* of the movements listed in the same response, in cents: a record left out
\* of the list adds nothing to the balance.
C29_SaldoDeLoListado ==
    [][ \A casa_id \in CasasConsulta, fallas \in SUBSET HojasConsulta :
          (get_condomino_estado_cuenta_con(casa_id, fallas) /\ resp'.status = "success") =>
              resp'.results[1].saldo_pendiente = Round2(SumaDe(resp'.results[1].movimientos)) ]_vars


\* C30: the ledger holds at most one ALICUOTA movement for a house and a
\* period, whatever bulk registrations of dues have been made.
C30_UnaCuotaPorPeriodo ==
    \A i, j \in 1..Len(MOVIMIENTOS) :
        ( /\ MOVIMIENTOS[i].TIPO_MOVIMIENTO = "ALICUOTA"
          /\ MOVIMIENTOS[j].TIPO_MOVIMIENTO = "ALICUOTA"
          /\ MOVIMIENTOS[i].ID_CASA = MOVIMIENTOS[j].ID_CASA
          /\ MOVIMIENTOS[i].MES_PERIODO = MOVIMIENTOS[j].MES_PERIODO ) => i = j

====
